---------------------------- MODULE Spec2Model ----------------------------
(***************************************************************************)
(* A model of tools/_extract_mzp_tiles.py: the MZP tile extraction library *)
(* (header parsing, palette building, tile decoding, crop-aware stitching  *)
(* of tile scanlines into the canvas, PNG chunk emission).                 *)
(*                                                                         *)
(* MzpFile.__init__ runs extract_desc, allocates the canvas, runs          *)
(* loop_data and output_png.  The model takes one step per stage and one   *)
(* step per tile: ExtractDesc, InitCanvas, LoopX (one tile, all of its     *)
(* scanlines), OutputPng.                                                  *)
(***************************************************************************)
EXTENDS Integers, Sequences, FiniteSets

VARIABLES
    data,                \* self.data: the container file (input, never written)
    entries_descriptors, \* number of entry descriptors still in the list
    hdr,                 \* the fields unpacked by extract_desc (line 149-151)
    bitmap_bpp,          \* self.bitmap_bpp, Unset while never assigned
    palette_count,       \* self.palette_count
    bytesprepx,          \* self.bytesprepx
    paletteblob,         \* self.paletteblob  (b,g,r,a per entry)
    palettepng,          \* self.palettepng   (r,g,b per entry)
    transpng,            \* self.transpng     (a per entry)
    rows,                \* self.rows: the canvas, one byte sequence per row
    y,                   \* loop_data: current tile row
    x,                   \* loop_x: current tile column
    pc,                  \* position in __init__
    error,               \* how the run died, "none" while it has not
    log,                 \* rows logged by the except IndexError handler
    png,                 \* chunks written to the output file, in order
    tiles_done,          \* history: number of tiles composited so far
    mismatch,            \* history: the decompressor reported a mismatch
    rowsrc               \* history: per canvas row, the <<y, x, i>> appended

vars == <<data, entries_descriptors, hdr, bitmap_bpp, palette_count, bytesprepx,
          paletteblob, palettepng, transpng, rows, y, x, pc, error, log, png,
          tiles_done, mismatch, rowsrc>>

(***************************************************************************)
(* Bounds of the explored inputs.                                          *)
(***************************************************************************)
MaxWidth == 8
MaxHeight == 8
MaxTileWidth == 4
MaxTileHeight == 4
MaxCountX == 3
MaxCountY == 3
MaxCrop == 1
MaxSeed == 1
CoveredSide == 4
CoveredTile == 2
CoveredCount == 2

Byte == 0..255
Unset == -1

Min(a, b) == IF a < b THEN a ELSE b
Max(a, b) == IF a > b THEN a ELSE b

(***************************************************************************)
(* Python's bitwise operators on bytes.                                    *)
(***************************************************************************)
RECURSIVE AndBits(_, _)
AndBits(a, b) ==
    IF a = 0 \/ b = 0 THEN 0
    ELSE (a % 2) * (b % 2) + 2 * AndBits(a \div 2, b \div 2)

RECURSIVE OrBits(_, _)
OrBits(a, b) ==
    IF a = 0 THEN b
    ELSE IF b = 0 THEN a
    ELSE (IF a % 2 = 1 \/ b % 2 = 1 THEN 1 ELSE 0) + 2 * OrBits(a \div 2, b \div 2)

AndTable == [a \in Byte |-> [b \in Byte |-> AndBits(a, b)]]
OrTable == [a \in Byte |-> [b \in Byte |-> OrBits(a, b)]]

BitAnd(a, b) == AndTable[a][b]
BitOr(a, b) == OrTable[a][b]

Shl(a, n) == a * 2^n
Shr(a, n) == a \div 2^n

(***************************************************************************)
(* Python sequence semantics.                                              *)
(***************************************************************************)
\* The position a slice bound i denotes in a sequence of length n.
SliceBound(i, n) == IF i < 0 THEN Max(i + n, 0) ELSE Min(i, n)

\* s[lo:hi] with 0-based, possibly negative or overlong bounds.
PySlice(s, lo, hi) ==
    LET a == SliceBound(lo, Len(s))
        b == SliceBound(hi, Len(s))
    IN IF a < b THEN SubSeq(s, a + 1, b) ELSE <<>>

\* s[i] is defined (no IndexError) for -len <= i < len.
ValidIndex(i, n) == i < n /\ i >= 0 - n

\* The 1-based position Python's s[i] denotes.
PyIndex(i, n) == IF i < 0 THEN i + n + 1 ELSE i + 1

\* [x] * n
Repeat(v, n) == [k \in 1..Max(n, 0) |-> v]

RECURSIVE Flatten(_)
Flatten(ss) == IF ss = <<>> THEN <<>> ELSE Head(ss) \o Flatten(Tail(ss))

\* Op applied to the value of v, v being evaluated once.
With(v, Op(_)) == CHOOSE r \in {Op(d) : d \in {v}} : TRUE

\* chunks(l, n): successive n-sized chunks of l, the last one possibly shorter.
chunks(l, n) ==
    [k \in 1..((Len(l) + n - 1) \div n) |-> SubSeq(l, (k - 1) * n + 1, Min(k * n, Len(l)))]

(***************************************************************************)
(* The container file.  data is a record: the nine header fields stored in *)
(* the 16-byte descriptor, the seed of the on-disk palette bytes, the      *)
(* bytes <<P, Q, C, A>> every decompressed tile is filled with, and which  *)
(* tile (if any) the decompressor reports a mismatch for.                  *)
(***************************************************************************)
\* The byte at offset off from pal_start (line 194): entry off \div 4 holds
\* four bytes, distinct entries holding distinct bytes.
PalByte(off) ==
    LET e == off \div 4
        c == off % 4
    IN (e * (c + 1) + data.pal_seed * 37 + c) % 256

is_indexed_bitmap(bmp_info) == bmp_info = 1

KnownTypes == {1, 3, 8, 11, 12}

\* The format branch of extract_desc: the error it exits with ("none" when it
\* returns), and the bitmap_bpp and palette_count it leaves assigned.
ParseFormat(bmp_type, bmp_depth) ==
    IF bmp_type \notin KnownTypes
    THEN [err |-> "UnknownType", bpp |-> Unset, count |-> Unset]
    ELSE IF is_indexed_bitmap(bmp_type)
    THEN IF bmp_depth = 1
         THEN [err |-> "none", bpp |-> 8, count |-> 256]
         ELSE IF bmp_depth = 0 \/ bmp_depth = 16
         THEN [err |-> "none", bpp |-> 4, count |-> 16]
         ELSE IF bmp_depth = 17 \/ bmp_depth = 145
         THEN [err |-> "none", bpp |-> 8, count |-> 256]
         ELSE [err |-> "UnknownDepth", bpp |-> Unset, count |-> Unset]
    ELSE IF bmp_type = 8
    THEN IF bmp_depth = 20
         THEN [err |-> "none", bpp |-> 24, count |-> Unset]
         ELSE [err |-> "UnknownDepth", bpp |-> Unset, count |-> Unset]
    ELSE IF bmp_type = 11
    THEN IF bmp_depth = 20
         THEN [err |-> "none", bpp |-> 32, count |-> Unset]
         ELSE [err |-> "UnknownDepth", bpp |-> Unset, count |-> Unset]
    ELSE IF bmp_type = 12
    THEN IF bmp_depth = 17
         THEN [err |-> "none", bpp |-> 24, count |-> Unset]
         ELSE [err |-> "none", bpp |-> Unset, count |-> Unset]
    ELSE [err |-> "UnsupportedType", bpp |-> Unset, count |-> Unset]

\* 4bpp alpha channel to 8bpp (line 184, 208).
AlphaExpand(temp_a) ==
    IF temp_a < 128 THEN Shl(temp_a, 1) + Shr(temp_a, 6) ELSE 255

\* The offset (from pal_start) the n-th palette entry is read at, n counted
\* from 0 in the order the entries are appended.  Linear palettes are read
\* sequentially.
LinearOffset(n) == n * 4

\* RGBATim2 palettes: for h, for i in range(2), for j in range(2) the code
\* seeks to h*0x80 + (i + j*2)*0x20 and reads 8 entries.
SwizzledOffsetBug(n) ==
    LET h == n \div 32
        i == (n \div 16) % 2
        j == (n \div 8) % 2
        k == n % 8
    IN h * 128 + (j + i * 2) * 32 + k * 4

SwizzledOffset(n) ==
    LET h == n \div 32
        i == (n \div 16) % 2
        j == (n \div 8) % 2
        k == n % 8
    IN h * 128 + (i + j * 2) * 32 + k * 4

\* Number of entries the RGBATim2 loops read.
SwizzledCount(count) == ((count * 4) \div 128) * 2 * 2 * 8

PaletteOffset(bmp_depth, n) ==
    IF bmp_depth \in {0, 16} THEN LinearOffset(n) ELSE SwizzledOffset(n)

PaletteRead(bmp_depth, count) ==
    IF bmp_depth \in {0, 16} THEN count ELSE SwizzledCount(count)

\* The n-th entry appended, as <<r, g, b, a>>: read from the file (line
\* 175-185, 200-209), or the padding of line 220-223 past the entries read.
PaletteEntry(bmp_depth, count, n) ==
    IF n < PaletteRead(bmp_depth, count)
    THEN LET off == PaletteOffset(bmp_depth, n)
         IN <<PalByte(off), PalByte(off + 1), PalByte(off + 2),
              AlphaExpand(PalByte(off + 3))>>
    ELSE <<0, 0, 0, 255>>

\* Entries appended in all: the ones read, then range(palette_count, 0x100).
PaletteLen(bmp_depth, count) ==
    PaletteRead(bmp_depth, count) + Max(256 - count, 0)

PaletteEntries(bmp_depth, count) ==
    [n \in 0..(PaletteLen(bmp_depth, count) - 1) |-> PaletteEntry(bmp_depth, count, n)]

\* paletteblob += (b + g + r + a)
BuildPaletteBlob(entries, len) ==
    [p \in 1..(4 * len) |-> entries[(p - 1) \div 4][<<3, 2, 1, 4>>[((p - 1) % 4) + 1]]]

\* palettepng += (r + g + b)
BuildPalettePng(entries, len) ==
    [p \in 1..(3 * len) |-> entries[(p - 1) \div 3][((p - 1) % 3) + 1]]

\* transpng += a
BuildTransPng(entries, len) ==
    [p \in 1..len |-> entries[p - 1][4]]

\* unpack('<HHHHHHHBB', ...) and tile_size (line 149-151).
UnpackHeader ==
    [width |-> data.width, height |-> data.height,
     tile_width |-> data.tile_width, tile_height |-> data.tile_height,
     tile_x_count |-> data.tile_x_count, tile_y_count |-> data.tile_y_count,
     bmp_type |-> data.bmp_type, bmp_depth |-> data.bmp_depth,
     tile_crop |-> data.tile_crop,
     tile_size |-> data.tile_width * data.tile_height]

ExtractDesc ==
    /\ pc = "init"
    /\ LET h == UnpackHeader
           f == ParseFormat(h.bmp_type, h.bmp_depth)
       IN /\ hdr' = h
          /\ bitmap_bpp' = f.bpp
          /\ palette_count' = f.count
          /\ IF f.err # "none"
             THEN /\ pc' = "exit"
                  /\ error' = f.err
                  /\ UNCHANGED <<paletteblob, palettepng, transpng,
                                 entries_descriptors>>
             ELSE /\ pc' = "canvas"
                  /\ error' = "none"
                  /\ entries_descriptors' = entries_descriptors - 1
                  /\ IF is_indexed_bitmap(h.bmp_type)
                     THEN \E entries \in {PaletteEntries(h.bmp_depth, f.count)} :
                            LET len == PaletteLen(h.bmp_depth, f.count)
                            IN /\ paletteblob' = BuildPaletteBlob(entries, len)
                               /\ palettepng' = BuildPalettePng(entries, len)
                               /\ transpng' = BuildTransPng(entries, len)
                     ELSE UNCHANGED <<paletteblob, palettepng, transpng>>
    /\ UNCHANGED <<data, bytesprepx, rows, y, x, log, png, tiles_done,
                   mismatch, rowsrc>>

\* __init__ line 139-143 (debug_format only logs): bytesprepx and the canvas.
InitCanvas ==
    /\ pc = "canvas"
    /\ IF bitmap_bpp = Unset
       THEN /\ pc' = "raised"
            /\ error' = "AttributeError"
            /\ UNCHANGED <<bytesprepx, rows, rowsrc>>
       ELSE /\ bytesprepx' = (IF bitmap_bpp \div 8 = 0 THEN 1 ELSE bitmap_bpp \div 8)
            /\ rows' = Repeat(<<>>, hdr.height - hdr.tile_y_count * hdr.tile_crop)
            /\ rowsrc' = Repeat(<<>>, hdr.height - hdr.tile_y_count * hdr.tile_crop)
            /\ pc' = (IF hdr.tile_y_count > 0 /\ hdr.tile_x_count > 0
                      THEN "loop" ELSE "output")
            /\ error' = "none"
    /\ UNCHANGED <<data, entries_descriptors, hdr, bitmap_bpp, palette_count,
                   paletteblob, palettepng, transpng, y, x, log, png,
                   tiles_done, mismatch>>

(***************************************************************************)
(* The decompression collaborator (mzx.decomp_mzx0.mzx0_decompress) and    *)
(* the decompressed content of a tile.  The tile record declares the size  *)
(* the format needs for tile_size pixels; every pixel of the tile carries  *)
(* the bytes data.fill = <<P, Q, C, A>>.                                   *)
(***************************************************************************)
DeclaredSize ==
    IF bitmap_bpp = 4 THEN (hdr.tile_size + 1) \div 2
    ELSE IF hdr.bmp_type \in {8, 11} THEN hdr.tile_size * (bitmap_bpp \div 8)
    ELSE IF hdr.bmp_type = 12 THEN 32 + hdr.tile_size + 1024
    ELSE hdr.tile_size

\* The byte at 0-based position p of a decompressed tile.
TileByte(p) ==
    IF hdr.bmp_type \in {8, 11}
    THEN IF p < 2 * hdr.tile_size
         THEN (IF p % 2 = 0 THEN data.fill[1] ELSE data.fill[2])
         ELSE IF p < 3 * hdr.tile_size THEN data.fill[3] ELSE data.fill[4]
    ELSE IF hdr.bmp_type = 12
    THEN IF p < 32 THEN 0
         ELSE IF p < 32 + hdr.tile_size THEN data.fill[1]
         ELSE LET q == p - 32 - hdr.tile_size
              IN (q \div 4 + data.fill[(q % 4) + 1]) % 256
    ELSE data.fill[1]

\* status, dec_buf = mzx0_decompress(data, real_size - 8, size).  A size
\* mismatch returns one byte less than declared, an integrity mismatch the
\* declared number of bytes; either is reported in status.
mzx0_decompress(index) ==
    LET bad == index = data.bad_tile
        n == IF bad /\ data.bad_kind = "size"
             THEN Max(DeclaredSize - 1, 0) ELSE DeclaredSize
    IN [status |-> IF bad THEN "Mismatch" ELSE "OK",
        buf |-> [k \in 1..n |-> TileByte(k - 1)]]

(***************************************************************************)
(* extract_tile                                                            *)
(***************************************************************************)
\* Byte(octet).low, Byte(octet).high
ByteLow(number) == BitAnd(number, 15)
ByteHigh(number) == Shr(number, 4)

\* 4bpp: pack('BB', low, high) per octet.
Expand4bpp(dec_buf) ==
    [k \in 1..(2 * Len(dec_buf)) |->
        IF k % 2 = 1 THEN ByteLow(dec_buf[(k + 1) \div 2])
        ELSE ByteHigh(dec_buf[k \div 2])]

\* b, g, r of line 280-282.
BaseB(P) == Shl(BitAnd(P, 31), 3)

BaseGBug(P, Q) == BitOr(Shl(BitAnd(Q, 7), 5), Shr(BitAnd(P, 224), 5))

BaseG(P, Q) == BitOr(Shl(BitAnd(Q, 7), 5), Shr(BitAnd(P, 224), 3))
BaseR(Q) == BitAnd(Q, 248)

\* The packed 16-bit colour of a pixel, as <<r, g, b>>.
BaseColor(P, Q) == <<BaseR(Q), BaseG(P, Q), BaseB(P)>>

ROffsetBug(offset_byte) == Shr(offset_byte, 4)

\* r_offset, g_offset, b_offset of line 286-288.
ROffset(offset_byte) == Shr(offset_byte, 5)
GOffset(offset_byte) == Shr(BitAnd(offset_byte, 31), 3)
BOffset(offset_byte) == BitAnd(offset_byte, 7)

\* The values handed to pack (line 293, 295) for base colour rgb:
\* <<r + r_offset, g + g_offset, b + b_offset>>.
AddOffset(rgb, offset_byte) ==
    <<rgb[1] + ROffset(offset_byte),
      rgb[2] + GOffset(offset_byte),
      rgb[3] + BOffset(offset_byte)>>

\* One iteration of the true-colour loop up to the pack call.
DecodePixel(P, Q, offset_byte) ==
    With(BaseColor(P, Q), LAMBDA rgb : AddOffset(rgb, offset_byte))

\* The 0-based positions of dec_buf the true-colour loop reads for a pixel.
TrueColorReads(index) ==
    {index * 2, index * 2 + 1, hdr.tile_size * 2 + index}
        \cup (IF bitmap_bpp = 32 THEN {hdr.tile_size * 3 + index} ELSE {})

\* The values packed for pixel index (alpha last when 32bpp).
TrueColorPixel(dec_buf, index) ==
    LET rgb == DecodePixel(dec_buf[index * 2 + 1], dec_buf[index * 2 + 2],
                           dec_buf[hdr.tile_size * 2 + index + 1])
    IN IF bitmap_bpp = 32
       THEN rgb \o <<dec_buf[hdr.tile_size * 3 + index + 1]>>
       ELSE rgb

\* The true-colour branch: IndexError on a read past the buffer, struct.error
\* when a value does not fit pack's 'B'.
ExpandTrueColor(dec_buf) ==
    LET pixels == 0..(hdr.tile_size - 1)
        bpx == bitmap_bpp \div 8
        Pack(packed) ==
            IF \E index \in pixels : \E c \in 1..bpx : packed[index][c] > 255
            THEN [err |-> "struct.error", buf |-> <<>>]
            ELSE [err |-> "none",
                  buf |-> [k \in 1..(hdr.tile_size * bpx) |->
                             packed[(k - 1) \div bpx][((k - 1) % bpx) + 1]]]
    IN IF \E index \in pixels : \E q \in TrueColorReads(index) : q >= Len(dec_buf)
       THEN [err |-> "IndexError", buf |-> <<>>]
       ELSE With([index \in pixels |-> TrueColorPixel(dec_buf, index)], Pack)

\* The HEP branch: the index bytes looked up in the trailing 1024 bytes;
\* ValueError when the four-byte slice cannot be unpacked into r, g, b, a.
ExpandHep(dec_buf) ==
    LET Lookup(image_data) ==
            LET quad(i) == PySlice(dec_buf, SliceBound(0 - 1024, Len(dec_buf)) + i * 4,
                                   Min(SliceBound(0 - 1024, Len(dec_buf)) + i * 4 + 4,
                                       Len(dec_buf)))
            IN IF \E k \in 1..Len(image_data) : Len(quad(image_data[k])) # 4
               THEN [err |-> "ValueError", buf |-> <<>>]
               ELSE [err |-> "none",
                     buf |-> [k \in 1..(3 * Len(image_data)) |->
                                quad(image_data[((k - 1) \div 3) + 1])[((k - 1) % 3) + 1]]]
    IN With(PySlice(dec_buf, 32, Len(dec_buf) - 1024), Lookup)

\* The decode branch of extract_tile (line 266-306) for the decompressor's
\* answer d.
DecodeTile(d) ==
    LET t == IF bitmap_bpp = 4
             THEN [err |-> "none", buf |-> Expand4bpp(d.buf)]
             ELSE IF bitmap_bpp \in {24, 32} /\ hdr.bmp_type \in {8, 11}
             THEN ExpandTrueColor(d.buf)
             ELSE IF hdr.bmp_type \in {12}
             THEN ExpandHep(d.buf)
             ELSE [err |-> "none", buf |-> d.buf]
    IN With(t, LAMBDA v : [status |-> d.status, err |-> v.err, buf |-> v.buf])

\* extract_tile(index): the status the decompressor returned (never looked
\* at by the code), how the call died, and the buffer it returns.
extract_tile(index) ==
    IF ~ValidIndex(index, entries_descriptors)
    THEN [status |-> "OK", err |-> "IndexError", buf |-> <<>>]
    ELSE With(mzx0_decompress(index), DecodeTile)

(***************************************************************************)
(* loop_data / loop_x                                                      *)
(***************************************************************************)
\* start_row of tile row ty (line 311).
StartRow(ty) == ty * (hdr.tile_height - hdr.tile_crop * 2)

RowCountBug(ty) ==
    Min(hdr.height, StartRow(ty) + hdr.tile_height) - StartRow(ty)

\* rowcount of tile row ty (line 312).
RowCount(ty) ==
    Min(hdr.height, StartRow(ty) + hdr.tile_height) - StartRow(ty) - hdr.tile_crop * 2

PxCountBug(cur_width) ==
    (cur_width + hdr.tile_width) * bytesprepx - cur_width

\* px_count (line 326).
PxCount(cur_width) ==
    Min(hdr.width, cur_width + hdr.tile_width) * bytesprepx - cur_width

\* The bytes of one tile scanline appended to a canvas row that already holds
\* cur_width bytes (line 328-330).
CroppedPiece(tile_row_px, cur_width) ==
    LET temp_row == PySlice(tile_row_px, 0, PxCount(cur_width))
    IN PySlice(temp_row, hdr.tile_crop * bytesprepx,
               Len(temp_row) - hdr.tile_crop * bytesprepx)

\* len(self.rows[idx]) on line 325 stands outside the try: its IndexError is
\* not caught.
RowReadRaises(idx, n) == ~ValidIndex(idx, n)

\* self.rows[idx] += ... on line 329 stands inside the try: its IndexError is
\* caught and the row index logged (line 331-332).
RowAppendRaises(idx, n) == ~ValidIndex(idx, n)

\* The scanline loop of loop_x for tile (ty, tx), from scanline i on.  st holds
\* rows, rowsrc, log and err; the loop stops at the first uncaught exception.
RECURSIVE StitchFrom(_, _, _, _, _)
StitchFrom(i, ch, ty, tx, st) ==
    IF i >= Len(ch) THEN st
    ELSE IF i < hdr.tile_crop THEN StitchFrom(i + 1, ch, ty, tx, st)
    ELSE IF (i - hdr.tile_crop) >= RowCount(ty) THEN st
    ELSE LET idx == StartRow(ty) + i - hdr.tile_crop
             n == Len(st.rows)
         IN IF RowReadRaises(idx, n)
            THEN [st EXCEPT !.err = "IndexError"]
            ELSE IF RowAppendRaises(idx, n)
            THEN StitchFrom(i + 1, ch, ty, tx, [st EXCEPT !.log = Append(@, idx)])
            ELSE LET r == PyIndex(idx, n)
                     Rest(piece) ==
                         With([st EXCEPT !.rows[r] = @ \o piece,
                                         !.rowsrc[r] = Append(@, <<ty, tx, i>>)],
                              LAMBDA next : StitchFrom(i + 1, ch, ty, tx, next))
                 IN With(CroppedPiece(ch[i + 1], Len(st.rows[r])), Rest)

\* The scanlines of tile t stitched into the canvas: extract_tile's error, or
\* the canvas after loop_x's inner loop and that loop's error.
StitchTile(t, ty, tx) ==
    IF t.err # "none"
    THEN [rows |-> rows, rowsrc |-> rowsrc, log |-> log, err |-> t.err,
          decoded |-> FALSE, status |-> t.status]
    ELSE With(chunks(t.buf, hdr.tile_width * bytesprepx),
              LAMBDA ch :
                  With(StitchFrom(0, ch, ty, tx,
                                  [rows |-> rows, rowsrc |-> rowsrc, log |-> log,
                                   err |-> "none"]),
                       LAMBDA st : [rows |-> st.rows, rowsrc |-> st.rowsrc,
                                    log |-> st.log, err |-> st.err,
                                    decoded |-> TRUE, status |-> t.status]))

\* One iteration of "for x in range(tile_x_count)" for the current (y, x).
LoopX ==
    /\ pc = "loop"
    /\ \E st \in {With(extract_tile(hdr.tile_x_count * y + x),
                        LAMBDA t : StitchTile(t, y, x))} :
          LET last_x == x + 1 >= hdr.tile_x_count
              last == last_x /\ y + 1 >= hdr.tile_y_count
          IN /\ mismatch' = (mismatch \/ st.status = "Mismatch")
             /\ rows' = st.rows
             /\ rowsrc' = st.rowsrc
             /\ log' = st.log
             /\ tiles_done' = (IF st.decoded THEN tiles_done + 1 ELSE tiles_done)
             /\ IF st.err # "none"
                THEN /\ pc' = "raised"
                     /\ error' = st.err
                     /\ UNCHANGED <<y, x>>
                ELSE /\ pc' = (IF last THEN "output" ELSE "loop")
                     /\ error' = "none"
                     /\ x' = (IF last_x THEN 0 ELSE x + 1)
                     /\ y' = (IF last_x THEN y + 1 ELSE y)
    /\ UNCHANGED <<data, entries_descriptors, hdr, bitmap_bpp, palette_count,
                   bytesprepx, paletteblob, palettepng, transpng, png>>

(***************************************************************************)
(* output_png                                                              *)
(***************************************************************************)
\* write_ihdr(png, width, height, depth, color)
write_ihdr(w, h, depth, color) ==
    [type |-> "IHDR", data |-> <<w, h, depth, color, 0, 0, 0>>]

IhdrChunksBug(w, h) ==
    IF is_indexed_bitmap(hdr.bmp_type)
    THEN <<write_ihdr(w, h, 8, 3),
           [type |-> "PLTE", data |-> palettepng],
           [type |-> "tRNS", data |-> transpng]>>
    ELSE IF hdr.bmp_type = 8
    THEN <<write_ihdr(w, h, 8, 2)>>
    ELSE IF hdr.bmp_type = 11
    THEN <<write_ihdr(w, h, 8, 6)>>
    ELSE <<>>

\* The chunks of the colour-mode branch (line 341-350).
IhdrChunks(w, h) ==
    IF is_indexed_bitmap(hdr.bmp_type)
    THEN <<write_ihdr(w, h, 8, 3),
           [type |-> "PLTE", data |-> palettepng],
           [type |-> "tRNS", data |-> transpng]>>
    ELSE IF bitmap_bpp = 24
    THEN <<write_ihdr(w, h, 8, 2)>>
    ELSE IF bitmap_bpp = 32
    THEN <<write_ihdr(w, h, 8, 6)>>
    ELSE <<>>

\* row_data: every canvas row prefixed with the null filter byte.
RowData == Flatten([k \in 1..Len(rows) |-> <<0>> \o rows[k]])

OutputPng ==
    /\ pc = "output"
    /\ LET w == hdr.width - hdr.tile_x_count * hdr.tile_crop * 2
           h == hdr.height - hdr.tile_y_count * hdr.tile_crop * 2
       IN png' = <<[type |-> "SIG", data |-> <<137, 80, 78, 71, 13, 10, 26, 10>>]>>
                 \o IhdrChunks(w, h)
                 \o <<[type |-> "IDAT", data |-> RowData],
                      [type |-> "IEND", data |-> <<>>]>>
    /\ pc' = "done"
    /\ UNCHANGED <<data, entries_descriptors, hdr, bitmap_bpp, palette_count,
                   bytesprepx, paletteblob, palettepng, transpng, rows, y, x,
                   error, log, tiles_done, mismatch, rowsrc>>

Next == ExtractDesc \/ InitCanvas \/ LoopX \/ OutputPng

(***************************************************************************)
(* Initial states: the object as __init__ finds it, for a container file   *)
(* d.                                                                      *)
(***************************************************************************)
NoHeader ==
    [width |-> Unset, height |-> Unset, tile_width |-> Unset,
     tile_height |-> Unset, tile_x_count |-> Unset, tile_y_count |-> Unset,
     bmp_type |-> Unset, bmp_depth |-> Unset, tile_crop |-> Unset,
     tile_size |-> Unset]

Start(d) ==
    /\ data = d
    /\ entries_descriptors = d.tile_x_count * d.tile_y_count + 1
    /\ hdr = NoHeader
    /\ bitmap_bpp = Unset
    /\ palette_count = Unset
    /\ bytesprepx = Unset
    /\ paletteblob = <<>>
    /\ palettepng = <<>>
    /\ transpng = <<>>
    /\ rows = <<>>
    /\ y = 0
    /\ x = 0
    /\ pc = "init"
    /\ error = "none"
    /\ log = <<>>
    /\ png = <<>>
    /\ tiles_done = 0
    /\ mismatch = FALSE
    /\ rowsrc = <<>>

Container(g, type, depth, seed, fill, bad, kind) ==
    [width |-> g.width, height |-> g.height,
     tile_width |-> g.tile_width, tile_height |-> g.tile_height,
     tile_x_count |-> g.tile_x_count, tile_y_count |-> g.tile_y_count,
     bmp_type |-> type, bmp_depth |-> depth, tile_crop |-> g.tile_crop,
     pal_seed |-> seed, fill |-> fill, bad_tile |-> bad, bad_kind |-> kind]

AllGeometries ==
    [width : 1..MaxWidth, height : 1..MaxHeight,
     tile_width : 1..MaxTileWidth, tile_height : 1..MaxTileHeight,
     tile_x_count : 1..MaxCountX, tile_y_count : 1..MaxCountY,
     tile_crop : 0..MaxCrop]

\* One tile row that contributes one canvas row: the horizontal fields vary.
IsWide(g) ==
    /\ g.tile_y_count = 1
    /\ g.tile_height = 2 * g.tile_crop + 1
    /\ g.height = g.tile_height

\* Two tile columns that contribute one pixel each: the vertical fields vary.
IsTall(g) ==
    /\ g.tile_x_count = 2
    /\ g.tile_width = 2 * g.tile_crop + 1
    /\ g.width = 2 * g.tile_width

\* The vertical fields equal to the horizontal ones.
IsSquare(g) ==
    /\ g.height = g.width
    /\ g.tile_height = g.tile_width
    /\ g.tile_y_count = g.tile_x_count

Geometries == {g \in AllGeometries : IsWide(g) \/ IsTall(g) \/ IsSquare(g)}

\* One tile of one pixel.
UnitGeometry ==
    [width |-> 1, height |-> 1, tile_width |-> 1, tile_height |-> 1,
     tile_x_count |-> 1, tile_y_count |-> 1, tile_crop |-> 0]

\* Small uncropped images whose tile grid just covers them.
CoveredGeometries ==
    {g \in [width : 1..CoveredSide, height : 1..CoveredSide,
            tile_width : 1..CoveredTile, tile_height : 1..CoveredTile,
            tile_x_count : 1..CoveredCount, tile_y_count : 1..CoveredCount,
            tile_crop : {0}] :
        /\ g.width <= g.tile_width * g.tile_x_count
        /\ g.width > g.tile_width * (g.tile_x_count - 1)
        /\ g.height <= g.tile_height * g.tile_y_count
        /\ g.height > g.tile_height * (g.tile_y_count - 1)}

\* One accepted format per bytes-per-pixel and decode branch.
AcceptedFormats == {<<1, 1>>, <<1, 0>>, <<8, 20>>, <<11, 20>>, <<12, 17>>}
StitchFormats == {<<1, 1>>, <<8, 20>>, <<11, 20>>}
SolidFill == <<33, 67, 101, 135>>

\* Spec: every geometry within the bounds, 1, 3 and 4 bytes per pixel.
Init ==
    \E g \in Geometries : \E f \in StitchFormats :
        Start(Container(g, f[1], f[2], 0, SolidFill, Unset, "size"))

Spec == Init /\ [][Next]_vars

\* SpecFormat: every (bitmapType, bitmapDepth) byte pair, one-pixel image.
InitFormat ==
    \E type \in Byte : \E depth \in Byte : \E seed \in 0..MaxSeed :
        Start(Container(UnitGeometry, type, depth, seed, SolidFill, Unset, "size"))

SpecFormat == InitFormat /\ [][Next]_vars

\* SpecPixel: a one-pixel true-colour image, every pair of plane-0 bytes.
InitPixel ==
    \E type \in {8, 11} : \E P \in Byte : \E Q \in Byte :
        Start(Container(UnitGeometry, type, 20, 0, <<P, Q, 255, 128>>, Unset, "size"))

SpecPixel == InitPixel /\ [][Next]_vars

\* SpecDecode: the decompressor reports a mismatch for one tile.
InitDecode ==
    \E g \in CoveredGeometries : \E f \in AcceptedFormats :
        \E bad \in 0..(g.tile_x_count * g.tile_y_count - 1) :
            \E kind \in {"size", "integrity"} :
                Start(Container(g, f[1], f[2], 0, SolidFill, bad, kind))

SpecDecode == InitDecode /\ [][Next]_vars

(***************************************************************************)
(* Properties.                                                             *)
(***************************************************************************)
Parsed == pc # "init"
Stitching == pc \in {"loop", "output", "done"} \/ (pc = "raised" /\ bitmap_bpp # Unset)
Encoding == pc \in {"output", "done"}

\* The (bitmapType, bitmapDepth) pairs of the derivation table.
TablePairs ==
    {<<1, 1>>, <<1, 0>>, <<1, 16>>, <<1, 17>>, <<1, 145>>,
     <<8, 20>>, <<11, 20>>, <<12, 17>>}

\* The fatal format error the derivation table prescribes for a pair.
TableError(type, depth) ==
    IF <<type, depth>> \in TablePairs THEN "none"
    ELSE IF type \notin {1, 3, 8, 11, 12} THEN "UnknownType"
    ELSE IF type = 3 THEN "UnsupportedType"
    ELSE "UnknownDepth"

\* C1: header parsing accepts exactly the pairs of the derivation table; for
\* every other pair the run ends, before any tile is decoded, in the format
\* error the table prescribes (unknown type, unsupported type 0x03, unknown
\* depth, the latter also for type 0x0C with a depth other than 0x11).
C1_HeaderAcceptance ==
    Parsed =>
        IF <<data.bmp_type, data.bmp_depth>> \in TablePairs
        THEN pc # "exit" /\ error = "none"
        ELSE /\ pc = "exit"
             /\ error = TableError(data.bmp_type, data.bmp_depth)
             /\ tiles_done = 0

\* The ContainerHeader invariants.
HeaderInvariants ==
    /\ hdr.width > 0
    /\ hdr.height > 0
    /\ 2 * hdr.tile_crop <= Min(hdr.tile_width, hdr.tile_height)

OutWidth == hdr.width - 2 * hdr.tile_crop * hdr.tile_x_count
OutHeight == hdr.height - 2 * hdr.tile_crop * hdr.tile_y_count

\* The tile grid is at least as large as the image.
GridCovers ==
    /\ hdr.width <= hdr.tile_width * hdr.tile_x_count
    /\ hdr.height <= hdr.tile_height * hdr.tile_y_count

\* C2: for every header satisfying the ContainerHeader invariants (here: one
\* whose grid covers a non-empty declared image), the canvas handed to the encoder has
\* OutHeight scanlines of exactly OutWidth pixels each: no scanline exceeds
\* the declared width and no canvas row remains unset.
C2_CanvasMatchesHeader ==
    (Encoding /\ HeaderInvariants /\ GridCovers /\ OutWidth > 0 /\ OutHeight > 0) =>
        /\ Len(rows) = OutHeight
        /\ \A k \in 1..Len(rows) : Len(rows[k]) = OutWidth * bytesprepx

\* The tiles whose scanlines were appended to some canvas row.
Composited ==
    {e[1] * hdr.tile_x_count + e[2] :
        e \in UNION {{rowsrc[r][n] : n \in 1..Len(rowsrc[r])} : r \in 1..Len(rowsrc)}}

\* C3: once the decompressor has reported a mismatch for a tile, the run has
\* failed with DecodeError, nothing of that tile is on the canvas and no
\* output chunk is written.
C3_MismatchFails ==
    mismatch =>
        /\ pc = "raised"
        /\ error = "DecodeError"
        /\ data.bad_tile \notin Composited
        /\ png = <<>>

\* The canvas rows past the last allocated one that tile row ty targets.
OverflowRows(ty) ==
    {StartRow(ty) + i - hdr.tile_crop : i \in
        {j \in hdr.tile_crop..(hdr.tile_height - 1) :
            /\ j - hdr.tile_crop < RowCount(ty)
            /\ StartRow(ty) + j - hdr.tile_crop >= Len(rows)}}

\* C4: a target canvas row past the last allocated row is not fatal: the
\* scanline is logged and dropped and the run goes on to the encoder.
C4_OverflowNonFatal ==
    Stitching =>
        \A ty \in 0..(hdr.tile_y_count - 1) :
            (tiles_done > ty * hdr.tile_x_count /\ OverflowRows(ty) # {}) =>
                /\ pc # "raised"
                /\ \A idx \in OverflowRows(ty) : \E n \in 1..Len(log) : log[n] = idx

ChunkTypes == [k \in 1..Len(png) |-> png[k].type]

EntryAt(n, off) ==
    /\ palettepng[3 * n + 1] = PalByte(off)
    /\ palettepng[3 * n + 2] = PalByte(off + 1)
    /\ palettepng[3 * n + 3] = PalByte(off + 2)
    /\ transpng[n + 1] = AlphaExpand(PalByte(off + 3))
    /\ paletteblob[4 * n + 1] = PalByte(off + 2)
    /\ paletteblob[4 * n + 2] = PalByte(off + 1)
    /\ paletteblob[4 * n + 3] = PalByte(off)
    /\ paletteblob[4 * n + 4] = AlphaExpand(PalByte(off + 3))

SwizzledBuilt ==
    Parsed /\ error = "none" /\ hdr.bmp_type = 1 /\ hdr.bmp_depth \in {1, 17, 145}

\* C6 as amended: for a block-swizzled palette, col is the outer and row the
\* inner loop: logical entry 32*b + 16*col + 8*row + k is the on-disk entry at
\* byte offset b*0x80 + (col + row*2)*0x20 + 4*k.
C6_Deswizzle ==
    SwizzledBuilt =>
        \A b \in 0..7 : \A col \in 0..1 : \A row \in 0..1 : \A k \in 0..7 :
            EntryAt(32 * b + 16 * col + 8 * row + k,
                    b * 128 + (col + row * 2) * 32 + 4 * k)

C6_Witness ==
    /\ SwizzledBuilt
    /\ hdr.bmp_depth = 17
    /\ Len(palettepng) = 768
    /\ EntryAt(8, 64)
    /\ ~EntryAt(8, 32)

\* C6 as claimed: row is the outer and col the inner loop: logical entry
\* 32*b + 16*row + 8*col + k is the on-disk entry at byte offset
\* b*0x80 + (col + row*2)*0x20 + 4*k.
C6_Original ==
    SwizzledBuilt =>
        \A b \in 0..7 : \A row \in 0..1 : \A col \in 0..1 : \A k \in 0..7 :
            EntryAt(32 * b + 16 * row + 8 * col + k,
                    b * 128 + (col + row * 2) * 32 + 4 * k)

\* The first pixel of a true-colour tile with plane-0 bytes P, Q and
\* correction byte C has been decoded onto the canvas.
Decoded(P, Q, C) ==
    /\ Encoding
    /\ hdr.bmp_type \in {8, 11}
    /\ data.fill[1] = P /\ data.fill[2] = Q /\ data.fill[3] = C
    /\ Len(rows) > 0
    /\ Len(rows[1]) >= 3

\* C7 as amended: a pixel with plane-0 bytes P=0xF8, Q=0x00 has base channels
\* r=0, g=28, b=192, and with correction byte 0xFF the emitted pixel is r=7,
\* g=31, b=199.
C7_Expansion ==
    Decoded(248, 0, 255) =>
        /\ BaseColor(248, 0) = <<0, 28, 192>>
        /\ SubSeq(rows[1], 1, 3) = <<7, 31, 199>>

C7_Witness == Decoded(248, 0, 255) /\ pc = "done"

\* C7 as claimed: base channels r=0, g=0, b=0 and emitted pixel r=7, g=3, b=7.
C7_Original ==
    Decoded(248, 0, 255) =>
        /\ BaseColor(248, 0) = <<0, 0, 0>>
        /\ SubSeq(rows[1], 1, 3) = <<7, 3, 7>>

InByte(v) == 0 <= v /\ v <= 255

\* C8: for all bytes P, Q and correction bytes C the three channels the
\* true-colour decoder emits lie in 0..255: packing them never fails.  (P, Q)
\* are the plane-0 bytes of the tile about to be decoded, C ranges over all
\* bytes; the channels actually emitted are on the canvas.
C8_NoOverflow ==
    /\ error # "struct.error"
    /\ (pc = "loop" /\ hdr.bmp_type = 8) =>
           \A rgb \in {BaseColor(data.fill[1], data.fill[2])} :
               \A C \in Byte :
                   \A d \in {AddOffset(rgb, C)} :
                       InByte(d[1]) /\ InByte(d[2]) /\ InByte(d[3])
    /\ (Encoding /\ hdr.bmp_type \in {8, 11}) =>
           \A r \in 1..Len(rows) : \A k \in 1..Len(rows[r]) : InByte(rows[r][k])

C8_Witness ==
    /\ Decoded(255, 255, 255)
    /\ pc = "done"
    /\ SubSeq(rows[1], 1, 3) = <<255, 255, 255>>

\* C9: while tile scanlines are appended (any number of tile columns, 1, 3 or
\* 4 bytes per pixel, 2*tileCrop <= tileWidth) no canvas row grows beyond
\* width pixels, that is width*bytesPerPixel bytes.
C9_RowWidthCapped ==
    (Stitching /\ 2 * hdr.tile_crop <= hdr.tile_width) =>
        /\ bytesprepx \in {1, 3, 4}
        /\ \A k \in 1..Len(rows) : Len(rows[k]) <= hdr.width * bytesprepx

\* The last tile column's excess bytes were discarded: two columns of two
\* pixels filled a row of three pixels.
C9_Witness ==
    /\ pc = "done"
    /\ bytesprepx = 3
    /\ hdr.tile_crop = 0 /\ hdr.tile_width = 2 /\ hdr.tile_x_count = 2
    /\ hdr.width = 3
    /\ Len(rowsrc[1]) = 2
    /\ Len(rows[1]) = 9

\* The canvas rows tile row ty owns.
RowRange(ty) == StartRow(ty)..(StartRow(ty) + RowCount(ty) - 1)

\* C10: tile row y writes only canvas rows in [startRow(y), startRow(y) +
\* rowCount(y)), from scanlines i with tileCrop <= i and i - tileCrop <
\* rowCount(y); the ranges of distinct tile rows are disjoint; every canvas
\* row receives data from one tile row only, in increasing column order.
C10_DisjointRowRanges ==
    Stitching =>
        /\ \A r \in 1..Len(rowsrc) : \A n \in 1..Len(rowsrc[r]) :
               LET ty == rowsrc[r][n][1]
                   tx == rowsrc[r][n][2]
                   i == rowsrc[r][n][3]
               IN /\ (r - 1) \in RowRange(ty)
                  /\ i >= hdr.tile_crop
                  /\ i - hdr.tile_crop < RowCount(ty)
                  /\ r - 1 = StartRow(ty) + i - hdr.tile_crop
                  /\ n > 1 => /\ rowsrc[r][n - 1][1] = ty
                              /\ rowsrc[r][n - 1][2] < tx
        /\ \A y1 \in 0..(hdr.tile_y_count - 1) : \A y2 \in 0..(hdr.tile_y_count - 1) :
               y1 # y2 => RowRange(y1) \cap RowRange(y2) = {}

\* Two tile rows of two columns each wrote their own cropped canvas rows.
C10_Witness ==
    /\ pc = "done"
    /\ hdr.tile_crop > 0
    /\ \E r1 \in 1..Len(rowsrc) : \E r2 \in 1..Len(rowsrc) :
           /\ Len(rowsrc[r1]) >= 2
           /\ Len(rowsrc[r2]) >= 2
           /\ rowsrc[r1][1][1] # rowsrc[r2][1][1]

=============================================================================
